---- MODULE Spec2Model ----
(***************************************************************************)
(* Model of the poll-based reactor of net/poll/src/reactor.rs: the peer    *)
(* table, the connecting set, the popol source list, one loop iteration    *)
(* (wait_timeout, tick, dispatch of every ready source, process()), and    *)
(* the calls the reactor makes into the protocol state machine.            *)
(*                                                                         *)
(* The protocol, the dialer, the sockets and the operating system are      *)
(* external: their answers (readiness, read/write/dial/accept results,     *)
(* the intents the protocol emits) are drawn from small sets.              *)
(***************************************************************************)
EXTENDS Integers, Sequences, FiniteSets

\* ------------------------------------------------------------------ bounds

\* Longest batch of intents one protocol.drain() call yields.
MaxBatch == 2
\* Most intents the protocol leaves in its output queue from the callbacks
\* that process() itself makes (attempted, disconnected).
MaxEmit == 1
\* Most peer registrations held in the source list at once.
MaxSources == 3
\* Most connections one Listener readiness event accepts.
MaxAccept == 1
\* reactor/poll.rs: events counted in Reactor.events.
MaxPending == 2
\* reactor/poll.rs: outputs one protocol.step gives.
MaxStepOutputs == 1
\* reactor/poll.rs: registrations the sources list is followed up to.
PollMaxSources == 2

\* Latest clock reading, longest Wakeup duration, most pending timers.
MaxTime == 2
MaxDelay == 1
MaxTimers == 2
\* Most commands the producers send on the command channel.
MaxCmds == 2

\* Peer socket addresses.
Addrs == {"a1", "a2"}
NoAddr == "-"

\* --------------------------------------------------------------- state

VARIABLES
    pc,          \* position of Reactor::run
    peers,       \* Reactor.peers: addr -> link of its Socket, "none" if absent
    fds,         \* addr -> descriptor number of its Socket, 0 if absent
    connecting,  \* Reactor.connecting
    sources,     \* Reactor.sources: the Peer(addr) registrations, in list order
    events,      \* popol::Events filled by wait_timeout, not yet dispatched
    outbox,      \* the protocol's outputs not yet taken by drain()
    batch,       \* the rest of the drained outputs process() iterates over
    drained,     \* what the current protocol.drain() call yielded
    enacted,     \* the outputs of it handled so far, in handling order
    trace,       \* calls and (un)registrations made by the latest step, in order
    reg,         \* per address: its latest registration, as the protocol was told
    att,         \* per address: attempted reported and not yet followed by connected
    env,         \* what the surroundings of this run offer (one of Environments)
    now,         \* local_time of the current iteration
    timeouts,    \* Reactor.timeouts: deadline -> number of timers registered for it
    due,         \* a timer had expired at the local_time this iteration began with
    wakes,       \* protocol.wake() calls since wait_timeout last returned
    fired,       \* latest deadline consumed by timeouts.wake so far, -1 before any
    commands,    \* Reactor.commands: the command channel
    sent,        \* commands sent so far (they are numbered 1, 2, ...)
    wakesDone,   \* commands whose producer has called Waker::wake after sending
    woken,       \* the waker has been woken and not reset since
    delivered,   \* commands passed to protocol.command, in order
    shut,        \* the shutdown channel and its producer
    height,      \* the argument of a call of locators_indexes
    located,     \* what the call returned, <<>> before it
    poll_pc,     \* reactor/poll.rs: position of Reactor::run
    poll_peers,  \* reactor/poll.rs: Reactor.peers, addr -> "none", or the state of
                 \* the Socket's queue: "idle" (empty) or "queued"
    poll_fds,    \* reactor/poll.rs: addr -> descriptor number of its Socket
    poll_sources,\* reactor/poll.rs: Reactor.sources, the Peer(addr) registrations
    poll_ready,  \* reactor/poll.rs: popol::Events not yet dispatched
    poll_events, \* reactor/poll.rs: length of Reactor.events, the protocol's input
    poll_outs    \* reactor/poll.rs: outputs of the current step processed so far

tvars == <<now, timeouts, due, wakes, fired>>
cvars == <<commands, sent, wakesDone, woken, delivered, shut>>
lvars == <<height, located>>
pvars == <<poll_pc, poll_peers, poll_fds, poll_sources, poll_ready, poll_events, poll_outs>>

vars == <<pc, peers, fds, connecting, sources, events, outbox, batch, drained, enacted,
          trace, reg, att, env, now, timeouts, due, wakes, fired,
          commands, sent, wakesDone, woken, delivered, shut, height, located,
          poll_pc, poll_peers, poll_fds, poll_sources, poll_ready, poll_events, poll_outs>>

\* p2p::protocol::Link
Links == {"Inbound", "Outbound"}

\* traits.rs Io, without payloads the reactor never inspects.
Intent(k, a) == [k |-> k, a |-> a]
Intents ==
    {Intent(k, a) : k \in {"Write", "Connect", "Disconnect"}, a \in Addrs}
        \cup {Intent("Wakeup", NoAddr), Intent("Event", NoAddr)}

\* The surroundings of a run: the remote addresses that connect or are dialed,
\* how many registrations fit, the kinds of output the protocol emits, the
\* readings of the clock, the commands producers send and whether a shutdown
\* is requested.  A run has either two peers and a clock that stands still,
\* or one peer that is dialed and accepted over and over, or one peer with
\* timers, a running clock and producers.
Environments ==
    {[name |-> "net", addrs |-> Addrs, sources |-> MaxSources - 1,
      kinds |-> {"Write", "Connect", "Disconnect", "Event"},
      times |-> {0}, cmds |-> 0, shutdown |-> FALSE],
     [name |-> "dup", addrs |-> {"a1"}, sources |-> MaxSources,
      kinds |-> {"Write", "Connect", "Disconnect"},
      times |-> {0}, cmds |-> 0, shutdown |-> FALSE],
     [name |-> "loop", addrs |-> {"a1"}, sources |-> 1,
      kinds |-> {"Wakeup", "Disconnect"},
      times |-> 0..MaxTime, cmds |-> MaxCmds, shutdown |-> TRUE]}

\* The outputs the protocol emits in environment e.
Offered(e) == {i \in Intents : i.k \in e.kinds /\ i.a \in e.addrs \cup {NoAddr}}

\* One entry of the trace: a protocol method (or a reactor primitive), the
\* address it concerns and its distinguishing argument or result.
Call(m, a, x) == [m |-> m, a |-> a, x |-> x]

\* Sequences over S of length at most n.
RECURSIVE SeqsUpTo(_, _)
SeqsUpTo(S, n) ==
    IF n = 0 THEN {<<>>}
    ELSE LET shorter == SeqsUpTo(S, n - 1)
         IN  shorter \cup {Append(s, x) : s \in {t \in shorter : Len(t) = n - 1}, x \in S}

\* ------------------------------------------------------ popol::Sources

\* A registration of Source::Peer(addr): `fd` the number of the descriptor it
\* was registered with, `live` while the socket it was registered with is
\* open, `write` its WRITE interest bit (READ is always set).
Entry(a, fd, live, write) == [addr |-> a, fd |-> fd, live |-> live, write |-> write]

\* Descriptor numbers the sockets of the peers can have: one socket per
\* address, and the socket that replaces one is created before that is closed.
Fds == 1..(Cardinality(Addrs) + 1)

\* The addresses whose open socket has descriptor number fd.
Owner(p, f, fd) == {b \in Addrs : p[b] # "none" /\ f[b] = fd}

\* A new socket gets the lowest descriptor number that is not open.
NewFd(p, f) == CHOOSE n \in Fds :
                  /\ Owner(p, f, n) = {}
                  /\ \A m \in Fds : m < n => Owner(p, f, m) # {}

\* Sources::find: index of the first registration under the key, 0 if none.
Find(srcs, a) ==
    IF \E i \in 1..Len(srcs) : srcs[i].addr = a
    THEN CHOOSE i \in 1..Len(srcs) :
            /\ srcs[i].addr = a
            /\ \A j \in 1..(i - 1) : srcs[j].addr # a
    ELSE 0

\* Vec::swap_remove
SwapRemove(srcs, i) ==
    LET n == Len(srcs)
    IN  IF i = n THEN SubSeq(srcs, 1, n - 1)
        ELSE [j \in 1..(n - 1) |-> IF j = i THEN srcs[n] ELSE srcs[j]]

\* Sources::unregister
SourcesUnregister(srcs, a) ==
    LET i == Find(srcs, a)
    IN  IF i = 0 THEN srcs ELSE SwapRemove(srcs, i)

\* Sources::get_mut(key).set / unset of the WRITE interest.
SourcesSetWrite(srcs, a, bit) ==
    LET i == Find(srcs, a)
    IN  IF i = 0 THEN srcs ELSE [srcs EXCEPT ![i].write = bit]

\* Dropping the Socket of `a` closes its descriptor: the registration made
\* with it, if still in the list, is stale from now on.
CloseFd(srcs, a) ==
    [i \in 1..Len(srcs) |->
        IF srcs[i].addr = a THEN [srcs[i] EXCEPT !.live = FALSE] ELSE srcs[i]]

\* ------------------------------------------------------ TimeoutManager

Times == 0..MaxTime
Durations == 0..MaxDelay

\* TimeoutManager::len
TimeoutsLen(ts) ==
    LET RECURSIVE Sum(_)
        Sum(t) == IF t > MaxTime THEN 0 ELSE ts[t] + Sum(t + 1)
    IN  Sum(0)

\* TimeoutManager::register(key, deadline): several timers may share a deadline.
TimeoutsRegister(ts, deadline) == [ts EXCEPT ![deadline] = @ + 1]

\* The deadlines TimeoutManager::wake(now, out) reports: those <= now.
TimeoutsExpired(ts, t) == {d \in Times : ts[d] > 0 /\ d <= t}

\* What TimeoutManager::wake(now, out) leaves in the queue.
TimeoutsWake(ts, t) == [d \in Times |-> IF d <= t THEN 0 ELSE ts[d]]

\* ------------------------------------------------------------ Reactor

\* The reactor fields a handler works on, with the trace of the step so far
\* and how the handler ended: "ok", "err" (an Err propagated by `?`) or
\* "panic" (a failed unwrap).
Machine(p, f, c, s, t) ==
    [peers |-> p, fds |-> f, connecting |-> c, sources |-> s, trace |-> t, st |-> "ok"]

Log(R, m, a, x) == [R EXCEPT !.trace = Append(@, Call(m, a, x))]

register_peer(R, addr, link) ==
    LET fd == NewFd(R.peers, R.fds)
        registered == Append(R.sources, Entry(addr, fd, TRUE, TRUE))
        \* HashMap::insert drops the Socket it replaces.
        inserted == Append(CloseFd(R.sources, addr), Entry(addr, fd, TRUE, TRUE))
    IN  Log([R EXCEPT !.sources = IF R.peers[addr] = "none" THEN registered ELSE inserted,
                      !.peers[addr] = link,
                      !.fds[addr] = fd],
            "register", addr, link)

\* unregister_peer without `self.connecting.remove(&addr)`.
unregister_peer_KeepsConnecting(R, addr, reason) ==
    Log(Log([R EXCEPT !.sources = CloseFd(SourcesUnregister(@, addr), addr),
                      !.peers[addr] = "none",
                      !.fds[addr] = 0],
            "unregister", addr, reason),
        "disconnected", addr, reason)

\* unregister_peer without the call of protocol.disconnected.
unregister_peer_Silent(R, addr, reason) ==
    Log([R EXCEPT !.connecting = @ \ {addr},
                  !.sources = CloseFd(SourcesUnregister(@, addr), addr),
                  !.peers[addr] = "none",
                  !.fds[addr] = 0],
        "unregister", addr, reason)

unregister_peer(R, addr, reason) ==
    Log(Log([R EXCEPT !.connecting = @ \ {addr},
                      !.sources = CloseFd(SourcesUnregister(@, addr), addr),
                      !.peers[addr] = "none",
                      !.fds[addr] = 0],
            "unregister", addr, reason),
        "disconnected", addr, reason)

\* Socket::disconnect: shutdown of both halves, errors ignored.
disconnect(R, addr) == Log(R, "shutdown", addr, "-")

ReadResults == {"Data", "Zero", "WouldBlock", "Err"}
WriteResults == {"Ok", "WouldBlock", "Err"}
DialResults == {"Ok", "AlreadyExists", "Err"}
AddrResults == {"Ok", "Err"}

\* handle_readable passing the empty slice of a read of 0 bytes to the
\* protocol before it closes the connection.
handle_readable_DeliversEmpty(R, addr, rres) ==
    IF R.peers[addr] = "none" THEN R
    ELSE LET R1 == Log(R, "read", addr, rres)
         IN  CASE rres = "Data" -> Log(R1, "received_bytes", addr, "-")
               [] rres = "Zero" ->
                    unregister_peer(disconnect(Log(R1, "received_bytes", addr, "-"), addr),
                                    addr, "PeerDisconnected")
               [] rres = "WouldBlock" -> R1
               [] OTHER ->
                    unregister_peer(disconnect(R1, addr), addr, "ConnectionError")

handle_readable(R, addr, rres) ==
    IF R.peers[addr] = "none" THEN R
    ELSE LET R1 == Log(R, "read", addr, rres)
         IN  CASE rres = "Data" -> Log(R1, "received_bytes", addr, "-")
               [] rres = "Zero" ->
                    unregister_peer(disconnect(R1, addr), addr, "PeerDisconnected")
               [] rres = "WouldBlock" -> R1
               [] OTHER ->
                    unregister_peer(disconnect(R1, addr), addr, "ConnectionError")

\* handle_writable that leaves the WRITE interest set after a complete write.
handle_writable_KeepsInterest(R, addr, lres, wres) ==
    IF Find(R.sources, addr) = 0 \/ R.peers[addr] = "none"
    THEN [R EXCEPT !.st = "panic"]
    ELSE
        LET wasConnecting == addr \in R.connecting
            R1 == [R EXCEPT !.connecting = @ \ {addr}]
        IN  IF wasConnecting /\ lres = "Err" THEN [R1 EXCEPT !.st = "err"]
            ELSE
                LET R2 == IF wasConnecting
                          THEN Log(R1, "connected", addr, R1.peers[addr])
                          ELSE R1
                    R3 == Log(R2, "write", addr, wres)
                IN  CASE wres \in {"Ok", "WouldBlock"} ->
                            [R3 EXCEPT !.sources = SourcesSetWrite(@, addr, TRUE)]
                      [] OTHER ->
                            unregister_peer(disconnect(R3, addr), addr, "ConnectionError")

\* handle_writable that ignores what `self.connecting.remove(addr)` returns
\* and reports connected on every writable event of a dialed socket.
handle_writable_AlwaysConnected(R, addr, lres, wres) ==
    IF Find(R.sources, addr) = 0 \/ R.peers[addr] = "none"
    THEN [R EXCEPT !.st = "panic"]
    ELSE
        LET R1 == [R EXCEPT !.connecting = @ \ {addr}]
        IN  IF lres = "Err" THEN [R1 EXCEPT !.st = "err"]
            ELSE
                LET R2 == Log(R1, "connected", addr, R1.peers[addr])
                    R3 == Log(R2, "write", addr, wres)
                IN  CASE wres = "Ok" ->
                            [R3 EXCEPT !.sources = SourcesSetWrite(@, addr, FALSE)]
                      [] wres = "WouldBlock" ->
                            [R3 EXCEPT !.sources = SourcesSetWrite(@, addr, TRUE)]
                      [] OTHER ->
                            unregister_peer(disconnect(R3, addr), addr, "ConnectionError")

handle_writable(R, addr, lres, wres) ==
    IF Find(R.sources, addr) = 0 \/ R.peers[addr] = "none"
    THEN [R EXCEPT !.st = "panic"]
    ELSE
        LET wasConnecting == addr \in R.connecting
            R1 == [R EXCEPT !.connecting = @ \ {addr}]
        IN  IF wasConnecting /\ lres = "Err" THEN [R1 EXCEPT !.st = "err"]
            ELSE
                LET R2 == IF wasConnecting
                          THEN Log(R1, "connected", addr, R1.peers[addr])
                          ELSE R1
                    R3 == Log(R2, "write", addr, wres)
                IN  CASE wres = "Ok" ->
                            [R3 EXCEPT !.sources = SourcesSetWrite(@, addr, FALSE)]
                      [] wres = "WouldBlock" ->
                            [R3 EXCEPT !.sources = SourcesSetWrite(@, addr, TRUE)]
                      [] OTHER ->
                            unregister_peer(disconnect(R3, addr), addr, "ConnectionError")

\* ---------------------------------------------------------- readiness

Event(src, a, inv, w, r) ==
    [src |-> src, addr |-> a, invalid |-> inv, writable |-> w, readable |-> r]

\* What poll may report for one registration: POLLNVAL while no open
\* descriptor has its number; otherwise the readiness of the socket that has
\* that number, which is the socket it was registered with or, after that was
\* closed, a socket created later.  It reports nothing or any of readable /
\* writable, writable only under WRITE interest; a socket whose connect has
\* not completed is not readable unless it is writable too.
EntryEvents(e, conn, p, f) ==
    IF Owner(p, f, e.fd) = {} THEN {<<Event("Peer", e.addr, TRUE, FALSE, FALSE)>>}
    ELSE {<<>>} \cup
         {<<Event("Peer", e.addr, FALSE, w, r)>> :
            <<w, r>> \in {b \in BOOLEAN \X BOOLEAN :
                            /\ b[1] \/ b[2]
                            /\ b[1] => e.write
                            /\ (Owner(p, f, e.fd) \subseteq conn /\ e.write /\ b[2]) => b[1]}}

RECURSIVE PeerEvents(_, _, _, _, _)
PeerEvents(srcs, conn, p, f, i) ==
    IF i > Len(srcs) THEN {<<>>}
    ELSE {h \o t : h \in EntryEvents(srcs[i], conn, p, f),
                   t \in PeerEvents(srcs, conn, p, f, i + 1)}

ListenerEvents == {<<>>, <<Event("Listener", NoAddr, FALSE, FALSE, TRUE)>>}

\* The waker is readable from Waker::wake until Waker::reset.
WakerEvents(w) == IF w THEN {<<Event("Waker", NoAddr, FALSE, FALSE, TRUE)>>} ELSE {<<>>}

\* ------------------------------------------------ what the protocol saw

\* The methods of traits.rs Protocol that tell it about one peer.
Callbacks == {"attempted", "connected", "received_bytes", "disconnected"}

\* The registration of an address as the protocol was told about it: "none"
\* while there is none, "open" from register_peer, "closed" once disconnected
\* was called while it stays registered; "leaving" and "leaving2" are the
\* instants inside unregister_peer, between the removal and its disconnected.
RegStep(r, call) ==
    CASE call.m = "register" -> "open"
      [] call.m = "unregister" ->
            (CASE r = "open" -> "leaving" [] r = "closed" -> "leaving2" [] OTHER -> r)
      [] call.m = "disconnected" ->
            (CASE r = "open" -> "closed"
               [] r \in {"leaving", "leaving2"} -> "none"
               [] OTHER -> r)
      [] OTHER -> r

\* attempted reported, connected not yet, registration not removed.
AttStep(t, call) ==
    CASE call.m = "attempted" -> TRUE
      [] call.m \in {"connected", "unregister"} -> FALSE
      [] OTHER -> t

\* The value a per-address observation has after the calls of `tr` that
\* concern address a, starting from v.
RECURSIVE After(_, _, _, _)
After(StepOp(_, _), v, tr, a) ==
    IF tr = <<>> THEN v
    ELSE After(StepOp, IF Head(tr).a = a THEN StepOp(v, Head(tr)) ELSE v, Tail(tr), a)

Observe ==
    /\ reg' = [a \in Addrs |-> After(RegStep, reg[a], trace', a)]
    /\ att' = [a \in Addrs |-> After(AttStep, att[a], trace', a)]

\* ---------------------------------------------------------------- run

InitReactor ==
    /\ pc = "drain"
    /\ peers = [a \in Addrs |-> "none"]
    /\ fds = [a \in Addrs |-> 0]
    /\ connecting = {}
    /\ sources = <<>>
    /\ events = <<>>
    /\ outbox = <<>>
    /\ batch = <<>>
    /\ drained = <<>>
    /\ enacted = <<>>
    /\ trace = <<Call("initialize", NoAddr, "-")>>
    /\ reg = [a \in Addrs |-> "none"]
    /\ att = [a \in Addrs |-> FALSE]
    /\ env \in Environments
    /\ now = 0
    /\ timeouts = [d \in Times |-> 0]
    /\ due = FALSE
    /\ wakes = 0
    /\ fired = -1
    /\ commands = <<>>
    /\ sent = 0
    /\ wakesDone = {}
    /\ woken = FALSE
    /\ delivered = <<>>
    /\ shut = "none"

\* reactor/poll.rs Reactor::new, and run up to the processing of the outputs
\* of protocol.initialize.
InitPoll ==
    /\ poll_pc = "initialize"
    /\ poll_peers = [a \in Addrs |-> "none"]
    /\ poll_fds = [a \in Addrs |-> 0]
    /\ poll_sources = <<>>
    /\ poll_ready = <<>>
    /\ poll_events = 0
    /\ poll_outs = 0

Init ==
    /\ InitReactor
    /\ height = 0
    /\ located = <<>>
    /\ InitPoll

\* wait_timeout returns: with the sources that are ready (the waker is
\* registered first, then the listener, then the peers), with TimedOut when
\* none is, or with another error.  Then SystemTime::now() is read, which
\* may be any reading, and protocol.tick is called.
Wait ==
    /\ pc = "wait"
    /\ \/ \E w \in WakerEvents(woken), l \in ListenerEvents,
             p \in PeerEvents(sources, connecting, peers, fds, 1) :
            /\ events' = w \o l \o p
            /\ pc' = IF w \o l \o p = <<>> THEN "timedout" ELSE "dispatch"
            /\ now' \in env.times
       \/ /\ events' = <<>>
          /\ pc' = "fatal"
          /\ now' = now
    /\ due' = (TimeoutsExpired(timeouts, now') # {})
    /\ wakes' = 0
    /\ trace' = <<Call("tick", NoAddr, "-")>>
    /\ UNCHANGED <<peers, fds, connecting, sources, outbox, batch, drained, enacted, reg, att,
                   env, lvars, pvars, timeouts, fired, cvars>>

\* Where run goes after handling one event.
AfterEvent(st, rest) ==
    CASE st = "err" -> "failed"
      [] st = "panic" -> "panic"
      [] OTHER -> IF rest = <<>> THEN "drain" ELSE "dispatch"

Commit(R, rest) ==
    /\ peers' = R.peers
    /\ fds' = R.fds
    /\ connecting' = R.connecting
    /\ sources' = R.sources
    /\ trace' = R.trace
    /\ events' = rest
    /\ pc' = AfterEvent(R.st, rest)
    /\ Observe

\* The Source::Peer arm of the dispatch loop.
peer_event(R, ev, lres, wres, rres) ==
    IF ev.invalid
    THEN [R EXCEPT !.sources = SourcesUnregister(@, ev.addr)]
    ELSE LET W == IF ev.writable THEN handle_writable(R, ev.addr, lres, wres) ELSE R
         IN  IF W.st # "ok" THEN W
             ELSE IF ev.readable THEN handle_readable(W, ev.addr, rres) ELSE W

DispatchPeer ==
    /\ pc = "dispatch"
    /\ events # <<>>
    /\ Head(events).src = "Peer"
    /\ \E lres \in (IF Head(events).writable /\ Head(events).addr \in connecting
                     THEN AddrResults ELSE {"Ok"}),
          wres \in (IF Head(events).writable THEN WriteResults ELSE {"Ok"}),
          rres \in (IF Head(events).readable THEN ReadResults ELSE {"WouldBlock"}) :
        Commit(peer_event(Machine(peers, fds, connecting, sources, <<>>),
                          Head(events), lres, wres, rres),
               Tail(events))
    /\ UNCHANGED <<outbox, batch, drained, enacted, env, lvars, pvars, tvars, cvars>>

\* The accept loop: the connections accepted before WouldBlock (or an accept
\* error) ends it; with `cfg` = "Err" the connection after them fails in
\* set_nonblocking or local_addr and run returns the error.
RECURSIVE accept_loop(_, _, _)
accept_loop(R, conns, cfg) ==
    IF conns = <<>>
    THEN IF cfg = "Err" THEN [R EXCEPT !.st = "err"] ELSE R
    ELSE accept_loop(Log(register_peer(R, Head(conns), "Inbound"),
                         "connected", Head(conns), "Inbound"),
                     Tail(conns), cfg)

DispatchListener ==
    /\ pc = "dispatch"
    /\ events # <<>>
    /\ Head(events).src = "Listener"
    /\ \E conns \in SeqsUpTo(env.addrs, MaxAccept), cfg \in AddrResults :
        /\ Len(sources) + Len(conns) <= env.sources
        /\ Commit(accept_loop(Machine(peers, fds, connecting, sources, <<>>), conns, cfg),
                  Tail(events))
    /\ UNCHANGED <<outbox, batch, drained, enacted, env, lvars, pvars, tvars, cvars>>

\* The TimedOut arm: timeouts.wake(local_time, ..), and protocol.wake() once
\* if any timer was reported.
TimedOut ==
    /\ pc = "timedout"
    /\ LET expired == TimeoutsExpired(timeouts, now)
       IN  /\ timeouts' = TimeoutsWake(timeouts, now)
           /\ trace' = IF expired # {} THEN <<Call("wake", NoAddr, "-")>> ELSE <<>>
           /\ wakes' = IF expired # {} THEN wakes + 1 ELSE wakes
           /\ fired' = IF expired # {}
                        THEN CHOOSE d \in expired : \A e \in expired : e <= d
                        ELSE fired
    /\ pc' = "drain"
    /\ UNCHANGED <<peers, fds, connecting, sources, events, outbox, batch, drained, enacted,
                   reg, att, env, lvars, pvars, now, due, cvars>>

\* process(): protocol.drain() yields what the protocol queued since the
\* last call: what the callbacks of the previous process() left, then what
\* this iteration's callbacks and tick added.
Drain ==
    /\ pc = "drain"
    /\ \E new \in SeqsUpTo(Offered(env), MaxBatch) :
        /\ Len(outbox) + Len(new) <= MaxBatch
        /\ TimeoutsLen(timeouts)
                + Cardinality({i \in 1..Len(new) : new[i].k = "Wakeup"}) <= MaxTimers
        /\ batch' = outbox \o new
        /\ drained' = outbox \o new
    /\ outbox' = <<>>
    /\ enacted' = <<>>
    /\ trace' = <<Call("drain", NoAddr, "-")>>
    /\ pc' = "process"
    /\ UNCHANGED <<peers, fds, connecting, sources, events, reg, att, env, lvars, pvars, tvars, cvars>>

\* process() iterating over the drained outputs from the back.
NextOutLast == batch[Len(batch)]

\* The output the loop of process() handles next.
NextOut == Head(batch)

\* What the protocol may add to its queue inside a callback that process()
\* makes about address a: nothing, an Event, or a Connect to a again.
Emit(a) ==
    {outbox \o s :
        s \in {t \in SeqsUpTo({Intent("Event", NoAddr), Intent("Connect", a)}
                                    \cap Offered(env), MaxEmit) :
                    Len(outbox) + Len(t) <= MaxEmit}}

Step(R) ==
    /\ peers' = R.peers
    /\ fds' = R.fds
    /\ connecting' = R.connecting
    /\ sources' = R.sources
    /\ trace' = R.trace
    /\ batch' = Tail(batch)
    /\ enacted' = Append(enacted, NextOut)
    /\ outbox' \in (IF \E i \in 1..Len(R.trace) : R.trace[i].m \in Callbacks
                    THEN Emit(NextOut.a) ELSE {outbox})
    /\ Observe
    /\ UNCHANGED <<pc, events, drained, env, lvars, pvars, now, due, wakes, fired, cvars>>

Here == Machine(peers, fds, connecting, sources, <<>>)

io_write(R, addr) == [R EXCEPT !.sources = SourcesSetWrite(@, addr, TRUE)]

\* The Io::Connect arm adding the address to the connecting set before it
\* looks at the result of the dial.
io_connect_MarksFirst(R, addr, dres) ==
    LET R1 == Log([R EXCEPT !.connecting = @ \cup {addr}], "dial", addr, dres)
    IN  CASE dres = "Ok" ->
                Log(register_peer(R1, addr, "Outbound"), "attempted", addr, "-")
          [] dres = "AlreadyExists" -> R1
          [] OTHER -> Log(R1, "disconnected", addr, "ConnectionError")

io_connect(R, addr, dres) ==
    LET R1 == Log(R, "dial", addr, dres)
    IN  CASE dres = "Ok" ->
                Log([register_peer(R1, addr, "Outbound") EXCEPT !.connecting = @ \cup {addr}],
                    "attempted", addr, "-")
          [] dres = "AlreadyExists" -> R1
          [] OTHER -> Log(R1, "disconnected", addr, "ConnectionError")

io_disconnect(R, addr, reason) ==
    IF R.peers[addr] # "none"
    THEN unregister_peer(disconnect(R, addr), addr, reason)
    ELSE R

ProcessWrite ==
    /\ pc = "process" /\ batch # <<>> /\ NextOut.k = "Write"
    /\ Step(io_write(Here, NextOut.a))
    /\ UNCHANGED timeouts

ProcessConnect ==
    /\ pc = "process" /\ batch # <<>> /\ NextOut.k = "Connect"
    /\ \E dres \in DialResults :
        /\ dres = "Ok" => Len(sources) < env.sources
        /\ Step(io_connect(Here, NextOut.a, dres))
    /\ UNCHANGED timeouts

ProcessDisconnect ==
    /\ pc = "process" /\ batch # <<>> /\ NextOut.k = "Disconnect"
    /\ Step(io_disconnect(Here, NextOut.a, "Protocol"))
    /\ UNCHANGED timeouts

\* Io::Wakeup(timeout): a timer for local_time + timeout.
ProcessWakeup ==
    /\ pc = "process" /\ batch # <<>> /\ NextOut.k = "Wakeup"
    /\ \E d \in Durations :
        /\ now + d <= MaxTime
        /\ timeouts' = TimeoutsRegister(timeouts, now + d)
    /\ Step(Here)

\* Io::Event: published, no reactor state changes.
ProcessEvent ==
    /\ pc = "process" /\ batch # <<>> /\ NextOut.k = "Event"
    /\ Step(Here)
    /\ UNCHANGED timeouts

\* process() returns; the loop goes back to wait_timeout.
ProcessDone ==
    /\ pc = "process" /\ batch = <<>>
    /\ pc' = "wait"
    /\ drained' = <<>>
    /\ enacted' = <<>>
    /\ trace' = <<>>
    /\ UNCHANGED <<peers, fds, connecting, sources, events, outbox, batch, reg, att,
                   env, lvars, pvars, tvars, cvars>>

\* The reactor has returned from run or panicked.
Ended == {"failed", "fatal", "panic", "assert_failed", "stopped"}

\* The Source::Waker arm.  It first looks at the shutdown channel.
DispatchWaker ==
    /\ pc = "dispatch"
    /\ events # <<>>
    /\ Head(events).src = "Waker"
    /\ IF shut \in {"sent", "woken"}
       THEN pc' = "stopped" /\ shut' = "taken"
       ELSE pc' = "waker_reset" /\ shut' = shut
    /\ trace' = <<>>
    /\ UNCHANGED <<peers, fds, connecting, sources, events, outbox, batch, drained, enacted,
                   reg, att, env, lvars, pvars, tvars, commands, sent, wakesDone, woken, delivered>>

\* popol::Waker::reset
WakerReset ==
    /\ pc = "waker_reset"
    /\ woken' = FALSE
    /\ pc' = "waker_assert"
    /\ trace' = <<>>
    /\ UNCHANGED <<peers, fds, connecting, sources, events, outbox, batch, drained, enacted,
                   reg, att, env, lvars, pvars, tvars, commands, sent, wakesDone, delivered, shut>>

\* debug_assert!(!self.commands.is_empty()): panics in a build with debug
\* assertions, compiled out otherwise.
WakerAssert ==
    /\ pc = "waker_assert"
    /\ pc' \in (IF commands = <<>> THEN {"assert_failed", "waker_drain"} ELSE {"waker_drain"})
    /\ trace' = <<>>
    /\ UNCHANGED <<peers, fds, connecting, sources, events, outbox, batch, drained, enacted,
                   reg, att, env, lvars, pvars, tvars, cvars>>

\* The waker arm taking a single command with try_recv instead of draining
\* the channel.
WakerDrain_One ==
    /\ pc = "waker_drain"
    /\ IF commands # <<>>
       THEN /\ commands' = Tail(commands)
            /\ delivered' = Append(delivered, Head(commands))
            /\ trace' = <<Call("command", NoAddr, Head(commands))>>
       ELSE /\ trace' = <<>>
            /\ UNCHANGED <<commands, delivered>>
    /\ events' = Tail(events)
    /\ pc' = AfterEvent("ok", Tail(events))
    /\ UNCHANGED <<peers, fds, connecting, sources, outbox, batch, drained, enacted,
                   reg, att, env, lvars, pvars, tvars, sent, wakesDone, woken, shut>>

\* for cmd in self.commands.try_iter(): one command, or the end of the loop
\* when the channel is empty.
WakerDrain ==
    /\ pc = "waker_drain"
    /\ IF commands # <<>>
       THEN /\ commands' = Tail(commands)
            /\ delivered' = Append(delivered, Head(commands))
            /\ trace' = <<Call("command", NoAddr, Head(commands))>>
            /\ UNCHANGED <<pc, events>>
       ELSE /\ events' = Tail(events)
            /\ pc' = AfterEvent("ok", Tail(events))
            /\ trace' = <<>>
            /\ UNCHANGED <<commands, delivered>>
    /\ UNCHANGED <<peers, fds, connecting, sources, outbox, batch, drained, enacted,
                   reg, att, env, lvars, pvars, tvars, sent, wakesDone, woken, shut>>

\* A producer thread sends a command on the channel ...
ProducerSend ==
    /\ pc \notin Ended
    /\ sent < env.cmds
    /\ sent' = sent + 1
    /\ commands' = Append(commands, sent + 1)
    /\ trace' = <<>>
    /\ UNCHANGED <<pc, peers, fds, connecting, sources, events, outbox, batch, drained, enacted,
                   reg, att, env, lvars, pvars, tvars, wakesDone, woken, delivered, shut>>

\* ... and then calls Waker::wake.
ProducerWake ==
    /\ pc \notin Ended
    /\ \E c \in (1..sent) \ wakesDone : wakesDone' = wakesDone \cup {c}
    /\ woken' = TRUE
    /\ trace' = <<>>
    /\ UNCHANGED <<pc, peers, fds, connecting, sources, events, outbox, batch, drained, enacted,
                   reg, att, env, lvars, pvars, tvars, commands, sent, delivered, shut>>

\* The owner of the reactor sends () on the shutdown channel ...
ShutdownSend ==
    /\ pc \notin Ended
    /\ env.shutdown
    /\ shut = "none"
    /\ shut' = "sent"
    /\ trace' = <<>>
    /\ UNCHANGED <<pc, peers, fds, connecting, sources, events, outbox, batch, drained, enacted,
                   reg, att, env, lvars, pvars, tvars, commands, sent, wakesDone, woken, delivered>>

\* ... and then wakes the reactor.
ShutdownWake ==
    /\ pc \notin Ended
    /\ shut = "sent"
    /\ shut' = "woken"
    /\ woken' = TRUE
    /\ trace' = <<>>
    /\ UNCHANGED <<pc, peers, fds, connecting, sources, events, outbox, batch, drained, enacted,
                   reg, att, env, lvars, pvars, tvars, commands, sent, wakesDone, delivered>>

Next ==
    \/ Wait
    \/ DispatchPeer
    \/ DispatchListener
    \/ DispatchWaker
    \/ WakerReset
    \/ WakerAssert
    \/ WakerDrain
    \/ ProducerSend
    \/ ProducerWake
    \/ ShutdownSend
    \/ ShutdownWake
    \/ TimedOut
    \/ Drain
    \/ ProcessWrite
    \/ ProcessConnect
    \/ ProcessDisconnect
    \/ ProcessWakeup
    \/ ProcessEvent
    \/ ProcessDone

Spec == Init /\ [][Next]_vars

\* ------------------------------------------ the loop as a thread

\* The steps of the thread that runs Reactor::run, in a run with timers,
\* producers and a shutdown request: the protocol of such a run emits only
\* Wakeup and Disconnect, so the other arms of process() are never taken.
ReactorThread ==
    \/ Wait
    \/ DispatchPeer
    \/ DispatchListener
    \/ DispatchWaker
    \/ WakerReset
    \/ WakerAssert
    \/ WakerDrain
    \/ TimedOut
    \/ Drain
    \/ ProcessDisconnect
    \/ ProcessWakeup
    \/ ProcessDone

\* The steps of the other threads.
Producers ==
    \/ ProducerSend
    \/ ProducerWake
    \/ ShutdownSend
    \/ ShutdownWake

LoopInit == Init /\ env.name = "loop"

LoopNext == ReactorThread \/ Producers

\* The reactor thread is scheduled as long as run has not returned: none of
\* its calls blocks for ever, wait_timeout returns after its timeout at the
\* latest.  Nothing obliges the producers to send anything.
LoopSpec == LoopInit /\ [][LoopNext]_vars /\ WF_vars(ReactorThread)

\* ------------------------------------------------- locators_indexes

\* Height is u64; the model computes with HeightBits bits.
HeightBits == 7
HeightLimit == 2 ^ HeightBits
Heights == 0..(HeightLimit - 1)

\* Number of leading entries with no height skipped.
DenseEntries == 8

\* u64::saturating_sub
saturating_sub(x, y) == IF y >= x THEN 0 ELSE x - y

\* The loop starting to double the step one entry late (`>` for `>=`).
RECURSIVE locators_loop_DoublesLate(_, _, _)
locators_loop_DoublesLate(from, step, indexes) ==
    IF from > 0
    THEN IF Len(indexes) > HeightLimit THEN indexes
         ELSE LET step2 == IF Len(indexes) > DenseEntries
                           THEN (step * 2) % HeightLimit ELSE step
              IN  locators_loop_DoublesLate(saturating_sub(from, step2), step2,
                                            Append(indexes, from))
    ELSE Append(indexes, 0)

\* The while loop of locators_indexes.  `step *= 2` wraps at the width of
\* the integer; the loop is cut off, without the final push, once it has
\* run more often than there are heights.
RECURSIVE locators_loop(_, _, _)
locators_loop(from, step, indexes) ==
    IF from > 0
    THEN IF Len(indexes) > HeightLimit THEN indexes
         ELSE LET step2 == IF Len(indexes) >= DenseEntries
                           THEN (step * 2) % HeightLimit ELSE step
              IN  locators_loop(saturating_sub(from, step2), step2, Append(indexes, from))
    ELSE Append(indexes, 0)

locators_indexes(from) == locators_loop(from, 1, <<>>)

\* A call of locators_indexes with any height.
LocInit ==
    /\ InitReactor
    /\ env.name = "net"
    /\ height \in Heights
    /\ located = <<>>
    /\ InitPoll

LocCall ==
    /\ located = <<>>
    /\ located' = locators_indexes(height)
    /\ UNCHANGED <<pc, peers, fds, connecting, sources, events, outbox, batch, drained, enacted,
                   trace, reg, att, env, tvars, cvars, height, pvars>>

LocNext == LocCall

LocSpec == LocInit /\ [][LocNext]_vars

\* ------------------------------------------ nakamoto-p2p reactor/poll.rs
\* The reactor that keeps a write queue per socket and feeds the protocol
\* through a queue of events.

\* The reactor's maps and lists while a handler runs; `events` is the length
\* of Reactor.events, counted up to MaxPending.
PollMachine(p, f, s, n) == [peers |-> p, fds |-> f, sources |-> s, events |-> n, st |-> "ok"]

\* VecDeque::push_back on Reactor.events.
PushEvent(n) == IF n < MaxPending THEN n + 1 ELSE n

poll_register_peer(R, addr) ==
    LET fd == NewFd(R.peers, R.fds)
        old == IF R.peers[addr] = "none" THEN R.sources ELSE CloseFd(R.sources, addr)
    IN  [R EXCEPT !.events = PushEvent(@),
                  !.sources = Append(old, Entry(addr, fd, TRUE, TRUE)),
                  !.peers[addr] = "idle",
                  !.fds[addr] = fd]

poll_unregister_peer(R, addr) ==
    [R EXCEPT !.events = PushEvent(@),
              !.sources = CloseFd(SourcesUnregister(@, addr), addr),
              !.peers[addr] = "none",
              !.fds[addr] = 0]

\* Results of a write of the queue: everything written, the socket would
\* block with a message left, or an error.
PollWriteResults == {"Ok", "WouldBlock", "Err"}

\* Results a run of reads ends with.
PollReadResults == {"WouldBlock", "Err"}

\* Socket::drain; st "err" stands for its Err return.
socket_drain(R, addr, wres) ==
    IF R.peers[addr] = "idle"
    THEN [R EXCEPT !.sources = SourcesSetWrite(@, addr, FALSE)]
    ELSE CASE wres = "Ok" ->
                [R EXCEPT !.events = PushEvent(@),
                          !.peers[addr] = "idle",
                          !.sources = SourcesSetWrite(@, addr, FALSE)]
           [] wres = "WouldBlock" ->
                [R EXCEPT !.sources = SourcesSetWrite(@, addr, TRUE)]
           [] OTHER -> [R EXCEPT !.st = "err"]

poll_handle_writable(R, addr, wres) ==
    IF Find(R.sources, addr) = 0 \/ R.peers[addr] = "none"
    THEN [R EXCEPT !.st = "panic"]
    ELSE LET D == socket_drain(R, addr, wres)
         IN  IF D.st = "err"
             THEN poll_unregister_peer([D EXCEPT !.st = "ok"], addr)
             ELSE D

poll_handle_readable(R, addr, msgs, rres) ==
    IF R.peers[addr] = "none"
    THEN [R EXCEPT !.st = "panic"]
    ELSE LET Got == IF msgs THEN [R EXCEPT !.events = PushEvent(@)] ELSE R
         IN  IF rres = "Err" THEN poll_unregister_peer(Got, addr) ELSE Got

\* The Source::Peer arm of run.
poll_peer_event(R, ev, wres, msgs, rres) ==
    LET W == IF ev.writable THEN poll_handle_writable(R, ev.addr, wres) ELSE R
    IN  IF W.st # "ok" THEN W
        ELSE IF ev.readable THEN poll_handle_readable(W, ev.addr, msgs, rres)
        ELSE W

RECURSIVE poll_accept(_, _)
poll_accept(R, conns) ==
    IF conns = <<>> THEN R
    ELSE poll_accept(poll_register_peer(R, Head(conns)), Tail(conns))

\* The Output::Message arm of process.
poll_message(R, addr, wres) ==
    IF R.peers[addr] = "none" THEN R
    ELSE IF Find(R.sources, addr) = 0 THEN [R EXCEPT !.st = "panic"]
    ELSE LET D == socket_drain([R EXCEPT !.peers[addr] = "queued"], addr, wres)
         IN  IF D.st = "err"
             THEN poll_unregister_peer([D EXCEPT !.st = "ok"], addr)
             ELSE D

\* The Output::Disconnect arm of process.
poll_disconnect(R, addr) ==
    IF R.peers[addr] = "none" THEN R ELSE poll_unregister_peer(R, addr)

PollNow == PollMachine(poll_peers, poll_fds, poll_sources, poll_events)

PollCommit(R) ==
    /\ poll_peers' = R.peers
    /\ poll_fds' = R.fds
    /\ poll_sources' = R.sources
    /\ poll_events' = R.events

PollFrame ==
    UNCHANGED <<pc, peers, fds, connecting, sources, events, outbox, batch, drained, enacted,
                trace, reg, att, env, tvars, cvars, lvars>>

\* sources.wait_timeout: a snapshot of readiness, a timeout (the TimedOut arm
\* of run pushes Timeout or Idle), or another error.
PollWait ==
    /\ poll_pc = "wait"
    /\ \/ /\ \E w \in {<<>>, <<Event("Waker", NoAddr, FALSE, FALSE, TRUE)>>},
                l \in ListenerEvents,
                p \in PeerEvents(poll_sources, {}, poll_peers, poll_fds, 1) :
                  poll_ready' = w \o l \o p
          /\ poll_pc' = "dispatch"
          /\ UNCHANGED poll_events
       \/ /\ poll_events' = PushEvent(poll_events)
          /\ poll_pc' = "events"
          /\ UNCHANGED poll_ready
       \/ /\ poll_pc' = "failed"
          /\ UNCHANGED <<poll_ready, poll_events>>
    /\ UNCHANGED <<poll_peers, poll_fds, poll_sources, poll_outs>>
    /\ PollFrame

PollDispatchPeer ==
    /\ poll_pc = "dispatch"
    /\ poll_ready # <<>>
    /\ Head(poll_ready).src = "Peer"
    /\ \E wres \in PollWriteResults, msgs \in BOOLEAN, rres \in PollReadResults :
          LET R == poll_peer_event(PollNow, Head(poll_ready), wres, msgs, rres)
          IN  /\ PollCommit(R)
              /\ poll_pc' = IF R.st = "panic" THEN "panic" ELSE "dispatch"
    /\ poll_ready' = Tail(poll_ready)
    /\ UNCHANGED poll_outs
    /\ PollFrame

\* The Source::Listener arm: the accept loop, which set_nonblocking or
\* local_addr can leave through `?`.
PollDispatchListener ==
    /\ poll_pc = "dispatch"
    /\ poll_ready # <<>>
    /\ Head(poll_ready).src = "Listener"
    /\ \E conns \in SeqsUpTo(Addrs, MaxAccept), failed \in BOOLEAN :
          /\ Len(poll_sources) + Len(conns) <= PollMaxSources
          /\ PollCommit(poll_accept(PollNow, conns))
          /\ poll_pc' = IF failed THEN "failed" ELSE "dispatch"
    /\ poll_ready' = Tail(poll_ready)
    /\ UNCHANGED poll_outs
    /\ PollFrame

\* The Source::Waker arm: the commands waiting become events.
PollDispatchWaker ==
    /\ poll_pc = "dispatch"
    /\ poll_ready # <<>>
    /\ Head(poll_ready).src = "Waker"
    /\ poll_events' \in {poll_events, PushEvent(poll_events)}
    /\ poll_ready' = Tail(poll_ready)
    /\ UNCHANGED <<poll_pc, poll_peers, poll_fds, poll_sources, poll_outs>>
    /\ PollFrame

PollDispatchDone ==
    /\ poll_pc = "dispatch"
    /\ poll_ready = <<>>
    /\ poll_pc' = "events"
    /\ UNCHANGED <<poll_peers, poll_fds, poll_sources, poll_ready, poll_events, poll_outs>>
    /\ PollFrame

\* `while let Some(event) = self.events.pop_front()`: the event is published
\* (try_send(..).unwrap()) and protocol.step gives the outputs to process.
PollPop ==
    /\ poll_pc = "events"
    /\ poll_events > 0
    /\ poll_events' = poll_events - 1
    /\ poll_outs' = 0
    /\ poll_pc' \in {"process", "panic"}
    /\ UNCHANGED <<poll_peers, poll_fds, poll_sources, poll_ready>>
    /\ PollFrame

PollEventsDone ==
    /\ poll_pc = "events"
    /\ poll_events = 0
    /\ poll_pc' = "wait"
    /\ UNCHANGED <<poll_peers, poll_fds, poll_sources, poll_ready, poll_events, poll_outs>>
    /\ PollFrame

PollProcessMessage ==
    /\ poll_pc \in {"initialize", "process"}
    /\ poll_outs < MaxStepOutputs
    /\ \E addr \in Addrs, wres \in PollWriteResults :
          LET R == poll_message(PollNow, addr, wres)
          IN  /\ PollCommit(R)
              /\ poll_pc' = IF R.st = "panic" THEN "panic" ELSE poll_pc
    /\ poll_outs' = poll_outs + 1
    /\ UNCHANGED poll_ready
    /\ PollFrame

\* The Output::Connect arm: dial, local_addr and peer_addr can fail, and `?`
\* returns the error from run.
PollProcessConnect ==
    /\ poll_pc \in {"initialize", "process"}
    /\ poll_outs < MaxStepOutputs
    /\ \E addr \in Addrs :
          \/ /\ Len(poll_sources) < PollMaxSources
             /\ PollCommit(poll_register_peer(PollNow, addr))
             /\ UNCHANGED poll_pc
          \/ /\ poll_pc' = "failed"
             /\ UNCHANGED <<poll_peers, poll_fds, poll_sources, poll_events>>
    /\ poll_outs' = poll_outs + 1
    /\ UNCHANGED poll_ready
    /\ PollFrame

PollProcessDisconnect ==
    /\ poll_pc \in {"initialize", "process"}
    /\ poll_outs < MaxStepOutputs
    /\ \E addr \in Addrs : PollCommit(poll_disconnect(PollNow, addr))
    /\ poll_outs' = poll_outs + 1
    /\ UNCHANGED <<poll_pc, poll_ready>>
    /\ PollFrame

\* The Output::SetTimeout arm registers a timeout and touches nothing else.
PollProcessSetTimeout ==
    /\ poll_pc \in {"initialize", "process"}
    /\ poll_outs < MaxStepOutputs
    /\ poll_outs' = poll_outs + 1
    /\ UNCHANGED <<poll_pc, poll_peers, poll_fds, poll_sources, poll_ready, poll_events>>
    /\ PollFrame

\* process returns: to the loop after protocol.initialize, to the next event
\* after protocol.step.
PollProcessDone ==
    /\ poll_pc \in {"initialize", "process"}
    /\ poll_pc' = IF poll_pc = "initialize" THEN "wait" ELSE "events"
    /\ UNCHANGED <<poll_peers, poll_fds, poll_sources, poll_ready, poll_events, poll_outs>>
    /\ PollFrame

PollInit == Init /\ env.name = "net"

PollNext ==
    \/ PollWait
    \/ PollDispatchPeer
    \/ PollDispatchListener
    \/ PollDispatchWaker
    \/ PollDispatchDone
    \/ PollPop
    \/ PollEventsDone
    \/ PollProcessMessage
    \/ PollProcessConnect
    \/ PollProcessDisconnect
    \/ PollProcessSetTimeout
    \/ PollProcessDone

PollSpec == PollInit /\ [][PollNext]_vars

\* ------------------------------------------------------------- claims

\* The observation RegStep of address a just before the i-th call of the
\* step that leads to the primed state.
RegBefore(a, i) == After(RegStep, reg[a], SubSeq(trace', 1, i - 1), a)
AttBefore(a, i) == After(AttStep, att[a], SubSeq(trace', 1, i - 1), a)

\* C1: for every registration of an address, disconnected(a) is called at
\* most once, and after it no attempted, connected, received_bytes or write
\* call is made for a until register_peer(a) runs again.
C1_DisconnectedIsLast ==
    [][\A a \in Addrs : \A i \in 1..Len(trace') :
          trace'[i].a = a =>
            /\ trace'[i].m = "disconnected" => RegBefore(a, i) \notin {"closed", "leaving2"}
            /\ trace'[i].m \in {"attempted", "connected", "received_bytes", "write"}
                    => RegBefore(a, i) = "open"]_vars

\* Registered addresses, in the peer table and in the source list.
PeerKeys == {a \in Addrs : peers[a] # "none"}
SourceKeys == {sources[i].addr : i \in 1..Len(sources)}
Registrations(srcs, a) == {i \in 1..Len(srcs) : srcs[i].addr = a}

\* Whether the step leading to the primed state made the call.
Made(m, a, x) == \E i \in 1..Len(trace') : trace'[i] = Call(m, a, x)
MadeAny(m, a) == \E i \in 1..Len(trace') : trace'[i].m = m /\ trace'[i].a = a

\* The sequence `attempted? connected received_bytes* disconnected` as an
\* automaton: "S0" before the first callback of a peer, "A" after attempted,
\* "C" after connected, "BAD" once a callback is out of place.  A peer that is
\* removed before its connect completes goes from "A" back to "S0"; a
\* disconnected for an address that is no peer leaves "S0" as it is.
OrderStart(r, t) == IF r = "open" THEN (IF t THEN "A" ELSE "C") ELSE "S0"
OrderStep(q, call) ==
    CASE call.m = "attempted" -> IF q = "S0" THEN "A" ELSE "BAD"
      [] call.m = "connected" -> IF q \in {"S0", "A"} THEN "C" ELSE "BAD"
      [] call.m = "received_bytes" -> IF q = "C" THEN "C" ELSE "BAD"
      [] call.m = "disconnected" -> IF q = "BAD" THEN "BAD" ELSE "S0"
      [] OTHER -> q

\* C2: the protocol callbacks of every peer follow
\* `attempted? connected received_bytes* disconnected`, and received_bytes
\* is never delivered for an address that is in the connecting set.
C2_CallbackOrder ==
    [][\A a \in Addrs :
          /\ After(OrderStep, OrderStart(reg[a], att[a]), trace', a) # "BAD"
          /\ MadeAny("received_bytes", a) => a \notin connecting']_vars

\* C3: whenever the loop is about to call wait_timeout, the addresses
\* registered as Peer(a) in the source list are the keys of the peer table.
C3_RegistrationCoherence == pc = "wait" => SourceKeys = PeerKeys

\* C4: the connecting set is a subset of the peer table's keys; an address
\* enters it only in a step that registered it after a successful dial, and
\* leaves it only on a writable event for it or when it is unregistered, and
\* is out of it after every writable event handled for it.
C4_ConnectingSubset ==
    [][/\ connecting' \subseteq {a \in Addrs : peers'[a] # "none"}
       /\ \A a \in connecting' \ connecting :
            Made("dial", a, "Ok") /\ Made("register", a, "Outbound")
       /\ \A a \in connecting \ connecting' :
            \/ MadeAny("unregister", a)
            \/ /\ pc = "dispatch"
               /\ Head(events).addr = a
               /\ Head(events).writable
       /\ (pc = "dispatch" /\ Head(events).src = "Peer" /\ Head(events).writable)
            => Head(events).addr \notin connecting']_vars

C4_Witness ==
    \E a \in Addrs :
        /\ a \in connecting
        /\ peers[a] = "Outbound"
        /\ \E i \in 1..Len(trace) : trace[i] = Call("attempted", a, "-")

\* The WRITE interest of the registration made with the open socket of a,
\* and of the registration that get_mut(Peer(a)) addresses.
HasLive(srcs, a) == \E i \in 1..Len(srcs) : srcs[i].addr = a /\ srcs[i].live
LiveBit(srcs, a) == \E i \in 1..Len(srcs) : srcs[i].addr = a /\ srcs[i].live /\ srcs[i].write
FirstBit(srcs, a) == Find(srcs, a) # 0 /\ srcs[Find(srcs, a)].write

ProtocolMethods ==
    {"initialize", "tick", "wake", "connected", "attempted", "disconnected",
     "received_bytes", "command", "drain", "write"}
ProtocolCalls(tr) == {i \in 1..Len(tr) : tr[i].m \in ProtocolMethods}

\* C6 (as claimed): the outputs of one drain() are enacted in the order they
\* were emitted, and no protocol method is called between the first and the
\* last of them.
C6_NoCallInsideBatch ==
    pc = "process" =>
        /\ enacted \o batch = drained
        /\ (enacted # <<>> /\ batch # <<>>) => ProtocolCalls(trace) = {}

\* C6 (amended): the outputs of one drain() are enacted in the order they
\* were emitted and all of them before process() returns; while they are
\* enacted the only protocol methods called are attempted(a), for a
\* Connect(a) whose dial succeeded, and disconnected(a), for a Connect(a)
\* whose dial failed or a Disconnect(a) of a registered peer.
C6_BatchInOrder ==
    /\ pc = "process" => enacted \o batch = drained
    /\ (pc = "process" /\ enacted # <<>>) =>
          LET out == enacted[Len(enacted)]
          IN  \A i \in ProtocolCalls(trace) :
                /\ trace[i].a = out.a
                /\ \/ trace[i].m = "attempted" /\ out.k = "Connect"
                   \/ trace[i].m = "disconnected" /\ out.k \in {"Connect", "Disconnect"}
    /\ pc # "process" => batch = <<>> /\ enacted = <<>>

C6_Witness ==
    /\ pc = "process"
    /\ batch = <<>>
    /\ Len(enacted) = 2
    /\ enacted[1].k = "Connect"
    /\ enacted[2].k = "Disconnect"
    /\ \E i \in 1..Len(trace) : trace[i].m = "disconnected"

\* C7: register_peer(a) runs only when a is not in the peer table (a prior
\* entry was removed by unregister_peer, with its disconnected), and Peer(a)
\* is never registered twice in the source list.
C7_NoLiveReplacement ==
    [][\A a \in Addrs :
          /\ \A i \in 1..Len(trace') :
                (trace'[i].m = "register" /\ trace'[i].a = a) => RegBefore(a, i) = "none"
          /\ Cardinality(Registrations(sources', a)) <= 1]_vars

C9_FailedDial ==
    [][\A a \in Addrs :
          /\ Made("dial", a, "Err") =>
                /\ trace' = <<Call("dial", a, "Err"),
                              Call("disconnected", a, "ConnectionError")>>
                /\ UNCHANGED <<peers, sources, connecting>>
          /\ Made("dial", a, "AlreadyExists") =>
                /\ trace' = <<Call("dial", a, "AlreadyExists")>>
                /\ UNCHANGED <<peers, sources, connecting>>]_vars

C9_Witness ==
    \E a \in Addrs :
        /\ trace = <<Call("dial", a, "Err"), Call("disconnected", a, "ConnectionError")>>
        /\ PeerKeys = {}
        /\ sources = <<>>
        /\ connecting = {}

\* C10: connected(a, Outbound) is called only while handling a writable
\* event for a that finds a in the connecting set and removes it, at most once
\* in the step, after attempted(a) was reported for the dial, and only for a
\* socket that was dialed.
C10_ConnectedOnce ==
    [][\A a \in Addrs : \A i \in 1..Len(trace') :
          trace'[i] = Call("connected", a, "Outbound") =>
            /\ pc = "dispatch"
            /\ Head(events).src = "Peer"
            /\ Head(events).addr = a
            /\ Head(events).writable
            /\ a \in connecting
            /\ a \notin connecting'
            /\ peers[a] = "Outbound"
            /\ AttBefore(a, i)
            /\ \A j \in 1..Len(trace') : trace'[j].m = "connected" => j = i]_vars

C10_Witness ==
    \E a \in Addrs :
        /\ \E i \in 1..Len(trace) : trace[i] = Call("connected", a, "Outbound")
        /\ a \notin connecting
        /\ ~att[a]

\* C11: a Disconnect(a) for an address in the peer table removes a from the
\* peer table, the source list and the connecting set and calls
\* disconnected(a, reason) exactly once; a Disconnect(a) for an address that
\* is not in the peer table changes nothing and calls no protocol method.
C11_DisconnectIdempotent ==
    [][(pc = "process" /\ batch # <<>> /\ batch' # batch /\ NextOut.k = "Disconnect") =>
          LET a == NextOut.a
          IN  IF peers[a] # "none"
              THEN /\ peers'[a] = "none"
                   /\ Registrations(sources', a) = {}
                   /\ a \notin connecting'
                   /\ Cardinality({i \in ProtocolCalls(trace') : TRUE}) = 1
                   /\ Made("disconnected", a, "Protocol")
              ELSE /\ UNCHANGED <<peers, sources, connecting>>
                   /\ ProtocolCalls(trace') = {}]_vars

\* The writable event for a that the step handles, if it handles one whose
\* read (if the event is readable too) does not end the connection.
WroteAndStayed(a, wres) ==
    /\ Made("write", a, wres)
    /\ ~Made("read", a, "Zero")
    /\ ~Made("read", a, "Err")

\* C12: a writable event of a registered peer in which protocol.write
\* returns WouldBlock (or WriteZero) leaves the peer registered with WRITE
\* interest set and calls no disconnected; one in which it returns Ok leaves
\* the WRITE interest of the peer clear.
C12_Backpressure ==
    [][\A a \in Addrs :
          /\ WroteAndStayed(a, "WouldBlock") =>
                /\ peers'[a] # "none"
                /\ LiveBit(sources', a)
                /\ ~MadeAny("disconnected", a)
          /\ WroteAndStayed(a, "Ok") =>
                /\ peers'[a] # "none"
                /\ ~LiveBit(sources', a)]_vars

\* The callbacks about address a among the calls of tr, in order.
RECURSIVE CallbacksFor(_, _)
CallbacksFor(tr, a) ==
    IF tr = <<>> THEN <<>>
    ELSE IF Head(tr).a = a /\ Head(tr).m \in Callbacks
         THEN <<Head(tr)>> \o CallbacksFor(Tail(tr), a)
         ELSE CallbacksFor(Tail(tr), a)

\* C19: a read of 0 bytes on a registered peer shuts the socket down,
\* removes the peer from the peer table, the source list and the connecting
\* set and calls disconnected(a, PeerDisconnected) exactly once, with no
\* received_bytes for that read; for an inbound peer disconnected is the
\* only callback of the step.
C19_OrderlyClose ==
    [][\A a \in Addrs :
          Made("read", a, "Zero") =>
            /\ Made("shutdown", a, "-")
            /\ peers'[a] = "none"
            /\ Registrations(sources', a) = {}
            /\ a \notin connecting'
            /\ Cardinality({i \in 1..Len(trace') :
                    trace'[i].m = "disconnected" /\ trace'[i].a = a}) = 1
            /\ Made("disconnected", a, "PeerDisconnected")
            /\ ~MadeAny("received_bytes", a)
            /\ peers[a] = "Inbound" =>
                  CallbacksFor(trace', a) = <<Call("disconnected", a, "PeerDisconnected")>>]_vars

\* C17: run does not return an error because of a failure that concerns
\* one peer connection.
C17_PeerErrorsStayLocal == pc # "failed"

\* C18: a Write(p) for a registered peer sets the WRITE interest of the
\* peer; from then on every writable event of p calls protocol.write(p);
\* while it returns WouldBlock the peer stays registered, with WRITE interest
\* set and without a disconnected(p), and when it returns Ok the WRITE
\* interest of the peer is cleared.
C18_PartialWriteCompletes ==
    [][\A p \in Addrs :
          /\ (pc = "process" /\ batch # <<>> /\ batch' # batch
                /\ NextOut = Intent("Write", p) /\ peers[p] # "none")
                => HasLive(sources', p) /\ LiveBit(sources', p)
          /\ (pc = "dispatch" /\ Head(events).src = "Peer" /\ Head(events).addr = p
                /\ Head(events).writable /\ peers[p] # "none")
                => \E wres \in WriteResults : Made("write", p, wres)
          /\ WroteAndStayed(p, "WouldBlock") =>
                /\ peers'[p] = peers[p]
                /\ HasLive(sources', p) /\ LiveBit(sources', p)
                /\ ~MadeAny("unregister", p) /\ ~MadeAny("disconnected", p)
          /\ WroteAndStayed(p, "Ok") =>
                HasLive(sources', p) /\ ~LiveBit(sources', p)]_vars

\* C13: when the match on the result of wait_timeout is over, protocol.wake()
\* has been called exactly once if a timer had expired at the iteration's
\* local_time, whether sources were ready or not, and not at all otherwise.
C13_WakeOncePerExpiry == pc = "drain" => wakes = (IF due THEN 1 ELSE 0)

\* C14: protocol.wake() is only called when the earliest pending deadline is
\* not after local_time; the timeouts.wake before it removes exactly the
\* timers whose deadline is <= local_time, and no timer it consumes has a
\* deadline earlier than one consumed before.
C14_TimerMonotonicity ==
    [][Made("wake", NoAddr, "-") =>
          /\ \E d \in Times : timeouts[d] > 0 /\ d <= now
          /\ \A d \in Times : timeouts'[d] = (IF d <= now THEN 0 ELSE timeouts[d])
          /\ \A d \in Times : (timeouts[d] > 0 /\ d <= now) => d >= fired]_vars

\* The commands in the channel whose producer has called Waker::wake.
Announced == {c \in wakesDone : \E i \in 1..Len(commands) : commands[i] = c}

\* C15: the commands passed to protocol.command and those still in the
\* channel are the commands sent, each once and in sending order; the
\* reactor is never about to block in wait_timeout with an announced command
\* in the channel and the waker reset; wait_timeout then returns with the
\* waker ready, and a waker event (without shutdown) ends with the channel
\* drained.
C15_CommandsDelivered ==
    [][/\ delivered' \o commands' = [i \in 1..sent' |-> i]
       /\ (pc' = "wait" /\ Announced' # {}) => woken'
       /\ (pc = "wait" /\ pc' # "wait" /\ Announced # {}) =>
             \/ pc' = "fatal"
             \/ pc' = "dispatch" /\ Head(events').src = "Waker"
       /\ (pc = "waker_drain" /\ pc' # "waker_drain") => commands = <<>>]_vars

C15_Witness ==
    /\ delivered = <<1, 2>>
    /\ wakesDone = {1, 2}
    /\ pc = "wait"
    /\ ~woken

\* C16: once the shutdown message is on its channel and the waker has been
\* woken for it, the reactor makes no protocol.tick and no disconnected
\* call; it returns leaving peer table, source list and connecting set as
\* they are.
C16_ShutdownBeforeTick ==
    [][/\ shut = "woken" =>
             \A i \in 1..Len(trace') : trace'[i].m \notin {"tick", "disconnected"}
       /\ (pc # "stopped" /\ pc' = "stopped") =>
             /\ UNCHANGED <<peers, sources, connecting>>
             /\ trace' = <<>>]_vars

\* The gap the loop of locators_indexes takes after its i-th entry.
RECURSIVE Power2(_)
Power2(n) == IF n = 0 THEN 1 ELSE 2 * Power2(n - 1)
ExpectedGap(i) == IF i <= 8 THEN 1 ELSE Power2(i - 8)

\* C20: locators_indexes(h) returns a strictly decreasing list from h to 0
\* (<<0>> for h = 0); the first 8 gaps are 1, every later gap is twice the
\* one before, and the last gap is cut so that the list ends at 0.
C20_LocatorsShape ==
    located # <<>> =>
        LET n == Len(located)
        IN  /\ located[1] = height
            /\ located[n] = 0
            /\ \A i \in 1..(n - 1) : located[i] > located[i + 1]
            /\ Cardinality({i \in 1..n : located[i] = 0}) = 1
            /\ height = 0 => located = <<0>>
            /\ \A i \in 1..(n - 1) :
                  located[i] - located[i + 1] =
                      (IF ExpectedGap(i) <= located[i] THEN ExpectedGap(i) ELSE located[i])
            /\ \A i \in 1..(n - 2) : located[i] - located[i + 1] = ExpectedGap(i)
            /\ height = 8 => located = <<8, 7, 6, 5, 4, 3, 2, 1, 0>>
            /\ height = 99 =>
                  located = <<99, 98, 97, 96, 95, 94, 93, 92, 91, 89, 85, 77, 61, 29, 0>>

C20_Witness ==
    /\ height = 99
    /\ located = <<99, 98, 97, 96, 95, 94, 93, 92, 91, 89, 85, 77, 61, 29, 0>>

\* The calls of method m about address a made by the step leading to the
\* primed state.
Calls(m, a) == {i \in 1..Len(trace') : trace'[i].m = m /\ trace'[i].a = a}

\* C21: every connection a Listener event accepts is, when the event has
\* been handled, in the peer table with link Inbound and in the source list
\* with its open socket, is not in the connecting set, and was reported by
\* exactly one connected(addr, Inbound) and no attempted; a writable event of
\* an inbound peer does not call connected again.
C21_InboundAccept ==
    [][\A a \in Addrs :
          /\ (pc = "dispatch" /\ Head(events).src = "Listener" /\ MadeAny("register", a)) =>
                /\ peers'[a] = "Inbound"
                /\ HasLive(sources', a)
                /\ a \notin connecting'
                /\ Cardinality(Calls("connected", a)) = 1
                /\ Made("connected", a, "Inbound")
                /\ Calls("attempted", a) = {}
          /\ (pc = "dispatch" /\ Head(events).src = "Peer" /\ Head(events).addr = a
                /\ peers[a] = "Inbound")
                => Calls("connected", a) = {}]_vars

\* C22: a writable event of a in which protocol.write returns an error other
\* than WouldBlock and WriteZero shuts the socket down, removes a from the
\* peer table, the source list and the connecting set and calls
\* disconnected(a, ConnectionError) exactly once; the readable half of the
\* same event reads nothing and calls nothing for a.
C22_WriteErrorCloses ==
    [][\A a \in Addrs :
          Made("write", a, "Err") =>
            /\ Made("shutdown", a, "-")
            /\ peers'[a] = "none"
            /\ Registrations(sources', a) = {}
            /\ a \notin connecting'
            /\ Cardinality(Calls("disconnected", a)) = 1
            /\ Made("disconnected", a, "ConnectionError")
            /\ Calls("read", a) = {}
            /\ Calls("received_bytes", a) = {}
            /\ \A i \in Calls("disconnected", a) : i = Len(trace')]_vars

\* C23: received_bytes(a) is called only with the bytes of a read that
\* returned more than 0 bytes, right after that read, for an address that is
\* in the peer table, and at most once per readiness event, which makes at
\* most one read; a read that returns WouldBlock is followed by no call, and
\* if the event is not writable as well the step calls no protocol method and
\* leaves peer table, source list (with its interests) and connecting set as
\* they were.
C23_ReceivedBytes ==
    [][\A a \in Addrs :
          /\ \A i \in Calls("received_bytes", a) :
                /\ i > 1
                /\ trace'[i - 1] = Call("read", a, "Data")
                /\ peers[a] # "none"
                /\ peers'[a] = peers[a]
                /\ pc = "dispatch" /\ Head(events) = Event("Peer", a, FALSE, Head(events).writable, TRUE)
          /\ Cardinality(Calls("received_bytes", a)) <= 1
          /\ Cardinality(Calls("read", a)) <= 1
          /\ \A i \in Calls("read", a) :
                trace'[i].x = "WouldBlock" =>
                    /\ i = Len(trace')
                    /\ ~Head(events).writable =>
                          /\ ProtocolCalls(trace') = {}
                          /\ UNCHANGED <<peers, sources, connecting>>]_vars

C23_Witness ==
    \E a \in Addrs :
        /\ trace = <<Call("read", a, "Data"), Call("received_bytes", a, "-")>>
        /\ peers[a] = "Inbound"
        /\ a \notin connecting

\* The registrations of the source list other than those of address a.
RECURSIVE Others(_, _)
Others(srcs, a) ==
    IF srcs = <<>> THEN <<>>
    ELSE IF Head(srcs).addr = a THEN Others(Tail(srcs), a)
         ELSE <<Head(srcs)>> \o Others(Tail(srcs), a)
StaleCount(srcs, a) == Cardinality({i \in Registrations(srcs, a) : ~srcs[i].live})

\* An event flagged invalid for a Peer source is the head of the events.
InvalidEvent == pc = "dispatch" /\ Head(events).src = "Peer" /\ Head(events).invalid

\* C24: an event flagged invalid for Peer(a) removes from the source list
\* the registration of Peer(a) whose descriptor is invalid and does nothing
\* else: the other registrations, the peer table and the connecting set stay
\* as they are, no handler runs and no protocol method is called.
C24_InvalidSourceRemoved ==
    [][InvalidEvent =>
          LET a == Head(events).addr
          IN  /\ UNCHANGED <<peers, connecting>>
              /\ trace' = <<>>
              /\ {sources'[i] : i \in 1..Len(sources')} \subseteq {sources[i] : i \in 1..Len(sources)}
              /\ \A b \in Addrs \ {a} :
                    Cardinality(Registrations(sources', b)) = Cardinality(Registrations(sources, b))
              /\ Cardinality(Registrations(sources', a))
                    = Cardinality(Registrations(sources, a)) - 1
              /\ StaleCount(sources', a) = StaleCount(sources, a) - 1]_vars

\* The part of C24 that does not say which registration of Peer(a) is removed.
C24_OneRegistrationRemoved ==
    [][InvalidEvent =>
          LET a == Head(events).addr
          IN  /\ UNCHANGED <<peers, connecting>>
              /\ trace' = <<>>
              /\ {sources'[i] : i \in 1..Len(sources')} \subseteq {sources[i] : i \in 1..Len(sources)}
              /\ \A b \in Addrs \ {a} :
                    Cardinality(Registrations(sources', b)) = Cardinality(Registrations(sources, b))
              /\ Cardinality(Registrations(sources', a))
                    = Cardinality(Registrations(sources, a)) - 1]_vars

\* C25: once the shutdown message has been sent and Waker::wake called after
\* it, run eventually returns.
C25_ShutdownReturns == (shut = "woken") ~> (pc \in Ended)

\* The rest of C25: run returns Ok(()) for the shutdown only in the Waker
\* arm, where alone the shutdown message is taken from its channel.
C25_TakenAtWakerEvent ==
    [][/\ shut' # shut =>
             \/ shut' \in {"sent", "woken"} /\ UNCHANGED pc
             \/ /\ shut' = "taken"
                /\ pc = "dispatch" /\ Head(events).src = "Waker"
                /\ pc' = "stopped"
       /\ (pc # "stopped" /\ pc' = "stopped") => shut' = "taken" /\ shut # "taken"]_vars

\* C26: when the Waker arm, having found no shutdown message, evaluates
\* `!self.commands.is_empty()`, the command channel holds a command.
C26_AssertionHolds ==
    [][(pc = "waker_assert" /\ pc' # "waker_assert") => commands # <<>>]_vars

\* C27: no writable event that is not flagged invalid finds its address
\* missing from the source list or from the peer table: neither unwrap at
\* the top of handle_writable fails.
C27_UnwrapsNeverFail ==
    [][(pc = "dispatch" /\ Head(events).src = "Peer" /\ ~Head(events).invalid
            /\ Head(events).writable)
          => /\ Find(sources, Head(events).addr) # 0
             /\ peers[Head(events).addr] # "none"
             /\ pc' # "panic"]_vars

\* C28: whenever the reactor is about to block in wait_timeout, the protocol
\* holds no output that has not been drained and enacted.
C28_NothingLeftUndrained == pc = "wait" => outbox = <<>>

\* A timer is pending whose deadline is not after the local_time of the
\* current iteration.
Expired == TimeoutsExpired(timeouts, now) # {}

\* C29: while run has not returned, a timer whose deadline has passed does
\* not stay pending for ever: protocol.wake() is called and timeouts.wake
\* consumes it, whatever sources are ready in the iterations in between.
C29_WakeNotStarved == Expired ~> (~Expired \/ pc \in Ended)

\* C30.  In reactor/poll.rs, whenever handle_writable or handle_readable runs
\* for a readiness event of Peer(addr), addr is in the peer table and in the
\* source list, so their unwraps do not fail: no Peer event makes run panic,
\* not even a writable and readable one whose write fails.
C30_PollUnwrapsNeverFail ==
    [][(poll_pc = "dispatch" /\ poll_ready # <<>> /\ Head(poll_ready).src = "Peer")
          => poll_pc' # "panic"]_vars

====
